---------------------------- MODULE Spec2Model ----------------------------
(***************************************************************************)
(* Reconciliation engine of mbsoeg: a batch of MBS items is synchronised   *)
(* against a Qdrant collection.  The model follows cmd/mbsoeg/main.go      *)
(* (runCLI and the /process handler of runServer) and                      *)
(* internal/storage/service.go.                                            *)
(*                                                                         *)
(* Strings are sequences of one-character strings, so that formatting,     *)
(* parsing and concatenation are computed the way the code computes them.  *)
(***************************************************************************)
EXTENDS Integers, Sequences, FiniteSets, TLC

(***************************************************************************)
(* Bounds of the model.                                                    *)
(***************************************************************************)
MaxWorkers == 2
MaxRuns == 2
MaxFailures == 2

\* Largest collection a scroll is followed on, page by page, and the number
\* of pages it may request.
MaxCollection == 250

MaxFetches == 6

\* /process requests the server handles side by side.
MaxRequests == 2

(***************************************************************************)
(* Strings and numbers.                                                    *)
(***************************************************************************)
Digits == <<"0", "1", "2", "3", "4", "5", "6", "7", "8", "9">>

DigitChars == {Digits[i] : i \in 1..10}

DigitValue(c) == (CHOOSE i \in 1..10 : Digits[i] = c) - 1

ParseError == -1

\* strconv.ParseUint(itemNum, 10, 64): the empty string and any non-digit
\* character are errors; leading zeros are accepted.
RECURSIVE ParseDigits(_, _)
ParseDigits(s, acc) ==
    IF s = <<>> THEN acc
    ELSE ParseDigits(Tail(s), acc * 10 + DigitValue(Head(s)))

ParseUint(s) ==
    IF s = <<>> \/ \E i \in 1..Len(s) : s[i] \notin DigitChars
    THEN ParseError
    ELSE ParseDigits(s, 0)

\* fmt.Sprintf("%d", n) of an unsigned number: no sign, no leading zeros.
RECURSIVE FormatUint(_)
FormatUint(n) ==
    IF n < 10 THEN <<Digits[n + 1]>>
    ELSE FormatUint(n \div 10) \o <<Digits[(n % 10) + 1]>>

\* fmt's %v of a float64 holding a whole amount: a '-' for a negative
\* value, then the decimal digits.
FormatFloat(x) ==
    IF x < 0 THEN <<"-">> \o FormatUint(0 - x) ELSE FormatUint(x)

(***************************************************************************)
(* Fingerprinter (storage.Service.GenerateHash).                           *)
(***************************************************************************)
\* A fingerprint content that also covers the identifier and the group.
HashContentWithItemNum(item) ==
    item.ItemNum \o <<"-">> \o item.Group \o <<"-">> \o
    item.Description \o <<"-">> \o
    FormatFloat(item.Benefit100) \o <<"-">> \o
    FormatFloat(item.ScheduleFee) \o <<"-">> \o
    item.BenefitType \o <<"-">> \o
    item.Category \o <<"-">> \o
    item.ItemType

\* fmt.Sprintf("%v-%v-%v-%v-%v-%v", ...): the six fields joined by '-'.
HashContent(item) ==
    item.Description \o <<"-">> \o
    FormatFloat(item.Benefit100) \o <<"-">> \o
    FormatFloat(item.ScheduleFee) \o <<"-">> \o
    item.BenefitType \o <<"-">> \o
    item.Category \o <<"-">> \o
    item.ItemType

\* sha256.Sum256 followed by hex.EncodeToString, taken to be injective:
\* the digest is represented by its tagged preimage.
Sha256Hex(content) == <<"sha256", content>>

GenerateHash(item) == Sha256Hex(HashContent(item))

\* models.MBSItem, restricted to the identifier, the six fingerprinted
\* fields and one attribute (Group) that is stored but not fingerprinted.
MBSItem(num, desc, b100, fee, btype, cat, itype, grp) ==
    [ItemNum |-> num, Description |-> desc, Benefit100 |-> b100,
     ScheduleFee |-> fee, BenefitType |-> btype, Category |-> cat,
     ItemType |-> itype, Group |-> grp]


(***************************************************************************)
(* Inputs of a run: the batch and the collection it starts from.           *)
(***************************************************************************)
DescA == <<"a">>

DescB == <<"b">>

\* An item of the run model: only the item number and the description vary.
Item(num, desc) == MBSItem(num, desc, 0, 0, <<>>, <<>>, <<>>, <<>>)

NoHash == <<"none", <<>>>>

\* A stored point: the vector and the payload written by an upsert.
Point(vec, hash, check, item) ==
    [vector |-> vec, hash |-> hash, lastCheck |-> check, item |-> item]

\* embeddings.Service.GetEmbedding: the provider's vector for a text.
GetEmbedding(text) == <<"embedding", text>>

\* fmt.Sprintf("MBS Item %s: %s", job.ItemNum, job.Item.Description)
EmbeddingText(job) ==
    <<"M", "B", "S", " ", "I", "t", "e", "m", " ">> \o job.ItemNum
        \o <<":", " ">> \o job.Item.Description

OldPoint(num, desc) ==
    Point(GetEmbedding(EmbeddingText([ItemNum |-> num, Item |-> Item(num, desc)])),
          GenerateHash(Item(num, desc)), 0, Item(num, desc))

ScenarioBatch ==
    <<Item(<<"1">>, DescA), Item(<<"2">>, DescA), Item(<<"3">>, DescB)>>

\* A batch whose first record has no description and whose second has no
\* item number: json.Unmarshal leaves an absent string field empty.
MissingFieldsBatch ==
    <<Item(<<"1">>, <<>>), Item(<<>>, DescA)>>

Batches ==
    { <<>>,
      MissingFieldsBatch,
      <<Item(<<"0", "2">>, DescA), Item(<<"0", "3">>, DescB)>>,
      <<Item(<<"x">>, DescA), Item(<<"3">>, DescB)>>,
      <<Item(<<"1">>, DescA), Item(<<"1">>, DescB)>>,
      ScenarioBatch }

EmptyIndex == [id \in {} |-> OldPoint(<<"0">>, DescA)]

ScenarioIndex ==
    [id \in {2, 3, 4} |-> OldPoint(FormatUint(id), DescA)]

UnhashedIndex ==
    [id \in {3} |-> [OldPoint(<<"3">>, DescB) EXCEPT !.hash = NoHash]]

Indexes == {EmptyIndex, ScenarioIndex, UnhashedIndex}

Modes == {"cli", "server"}

\* cfg.ServerAPIKey and the X-API-Key headers a request may carry (the empty
\* string: no header).
ServerAPIKey == "secret"

RequestKeys == {ServerAPIKey, "wrong", ""}

\* A nil offset / a nil NextPageOffset.
NilOffset == -1

(***************************************************************************)
(* State.                                                                  *)
(***************************************************************************)
VARIABLES
    mode,           \* "cli" (runCLI) or "server" (the /process handler)
    numWorkers,     \* cfg.NumWorkers
    items,          \* the batch: request.MBS_Items / requestBody.MBSItems
    index,          \* the collection: point id -> stored point
    startIndex,     \* the collection as it was when the run began
    run,            \* number of the current run (also the clock of _last_check)
    pc,             \* position of the coordinating goroutine
    existingPoints, \* snapshot returned by ScrollPoints (point ids)
    currentItems,   \* map[string]bool of the item numbers seen in the batch
    planIdx,        \* index of the next item the planning loop looks at
    jobCount,       \* jobs queued
    recvCount,      \* loop counter i of runCLI's result loop
    scanLeft,       \* snapshot positions the removal loop has not visited
    skippedCount, updatedCount, removedCount,
    summary,        \* the counts reported at the end of the run
    jobs, jobsClosed,        \* the jobs channel
    results, resultsClosed,  \* the results channel
    wstate,         \* per worker: idle / busy with a job / exited
    rst, cur,       \* result processing: position and the result in hand
    lookupFails, embedFails, upsertFails, deleteFails, scrollFails,
    priorFails,     \* failed calls of the earlier runs
    faults,         \* transport failures injected so far
    produced,       \* results sent by the workers in this run
    reconciled,     \* results whose error was logged or upsert was attempted
    upsertLog,      \* point ids of the successful upserts of this run
    deleteLog,      \* point ids of the delete calls issued in this run
    hashA, hashB, hashPair, \* two records and their fingerprints
    requestKey,     \* the X-API-Key header of the request (server mode)
    outcome,        \* how the run ended: "" while it goes on
    embedCalls,     \* calls of GetEmbedding made in this run
    scrollCalls,    \* calls of ScrollPoints made in this run
    jobTrack,       \* per queued job: times queued, taken, embedded, answered
    lookupFailed,   \* positions of the batch whose point lookup failed
    skippedAt,      \* positions of the batch classified unchanged
    mu,             \* holder of the counter mutex mu ("free": none)
    processingMu,   \* holder of the server's processingMu
    isProcessing,   \* the server's processing flag
    deferSt,        \* the deferred function of the /process handler
    planSt,         \* planning loop: at the lookup / inside mu
    collection,     \* ids of the collection a scroll reads
    offset,         \* ScrollPoints: the offset of the next page
    allPoints,      \* ScrollPoints: the points collected so far
    fetches,        \* ScrollPoints: pages requested so far
    scrollPc,       \* ScrollPoints: idle / fetch / returned
    handlers,       \* per /process request: position of its handler
    healthPc,       \* position of the handler of GET /
    status          \* status.IsProcessing of the health response

cfgVars == <<mode, numWorkers, items, startIndex, requestKey>>

mainVars == <<existingPoints, currentItems, planIdx, jobCount, recvCount,
              scanLeft, skippedCount, removedCount, summary>>

chanVars == <<jobs, jobsClosed, results, resultsClosed>>

failVars == <<lookupFails, embedFails, upsertFails, deleteFails, scrollFails,
              priorFails, faults>>

histVars == <<produced, reconciled, upsertLog, deleteLog>>

hashVars == <<hashA, hashB, hashPair>>

callVars == <<outcome, embedCalls, scrollCalls, jobTrack, lookupFailed,
              skippedAt>>

lockVars == <<mu, processingMu, isProcessing, deferSt, planSt>>

scrollVars == <<collection, offset, allPoints, fetches, scrollPc>>

healthVars == <<handlers, healthPc, status>>

vars == <<cfgVars, index, run, pc, mainVars, chanVars, wstate, rst, cur,
          updatedCount, failVars, histVars, hashVars, callVars, scrollVars,
          lockVars, healthVars>>

Workers == 1..numWorkers

NoJob == [ItemNum |-> <<>>]

NoResult == [ItemNum |-> <<>>]

NoSummary == [processed |-> -1]

Failures ==
    lookupFails + embedFails + upsertFails + deleteFails + scrollFails

\* A call to the provider or to the index may fail while the budget lasts.
MayFail == faults < MaxFailures

\* No scroll is being followed page by page.
ScrollIdle ==
    /\ collection = {}
    /\ offset = NilOffset
    /\ allPoints = <<>>
    /\ fetches = 0
    /\ scrollPc = "idle"

\* No request is being served by the HTTP handler.
HealthIdle ==
    /\ handlers = <<>>
    /\ healthPc = "idle"
    /\ status = FALSE

RunInit ==
    /\ pc = "begin"
    /\ mu = "free"
    /\ processingMu = "free"
    /\ isProcessing = FALSE
    /\ deferSt = "pending"
    /\ planSt = "lookup"
    /\ outcome = ""
    /\ embedCalls = 0
    /\ scrollCalls = 0
    /\ jobTrack = <<>>
    /\ lookupFailed = {}
    /\ skippedAt = {}
    /\ existingPoints = <<>>
    /\ currentItems = {}
    /\ planIdx = 1
    /\ jobCount = 0
    /\ recvCount = 0
    /\ scanLeft = {}
    /\ skippedCount = 0
    /\ updatedCount = 0
    /\ removedCount = 0
    /\ summary = NoSummary
    /\ jobs = <<>>
    /\ jobsClosed = FALSE
    /\ results = <<>>
    /\ resultsClosed = FALSE
    /\ wstate = [w \in Workers |-> [st |-> "idle", job |-> NoJob]]
    /\ rst = "off"
    /\ cur = NoResult
    /\ lookupFails = 0
    /\ embedFails = 0
    /\ upsertFails = 0
    /\ deleteFails = 0
    /\ scrollFails = 0
    /\ produced = 0
    /\ reconciled = 0
    /\ upsertLog = <<>>
    /\ deleteLog = <<>>

Init ==
    /\ mode \in Modes
    /\ numWorkers \in 0..MaxWorkers
    /\ items \in Batches
    /\ index \in Indexes
    /\ startIndex = index
    /\ run = 1
    /\ priorFails = 0
    /\ faults = 0
    /\ hashA = <<>>
    /\ hashB = <<>>
    /\ hashPair = <<>>
    /\ requestKey \in (IF mode = "cli" THEN {""} ELSE RequestKeys)
    /\ ScrollIdle
    /\ HealthIdle
    /\ RunInit


(***************************************************************************)
(* Bookkeeping of the jobs: how often each was queued, taken from the      *)
(* queue, sent to the provider and answered with a result.                 *)
(***************************************************************************)
NewTrack == [queued |-> 0, taken |-> 0, embedded |-> 0, answered |-> 0]

TrackOf(track, job) == IF job \in DOMAIN track THEN track[job] ELSE NewTrack

Queued(track, job) ==
    [j \in DOMAIN track \cup {job} |->
        IF j = job
        THEN [TrackOf(track, j) EXCEPT !.queued = @ + 1]
        ELSE track[j]]

Taken(track, job) ==
    [j \in DOMAIN track \cup {job} |->
        IF j = job
        THEN [TrackOf(track, j) EXCEPT !.taken = @ + 1]
        ELSE track[j]]

\* The worker calls the provider once for the job and sends one result.
Answered(track, job) ==
    [j \in DOMAIN track \cup {job} |->
        IF j = job
        THEN [TrackOf(track, j) EXCEPT !.embedded = @ + 1, !.answered = @ + 1]
        ELSE track[j]]


(***************************************************************************)
(* Existing-state reader and change planner.                               *)
(***************************************************************************)
\* The ids of a collection in ascending order, as a scroll returns them.
RECURSIVE SortedBetween(_, _, _)
SortedBetween(ids, lo, hi) ==
    IF ids = {} THEN <<>>
    ELSE IF lo = hi THEN <<lo>>
    ELSE LET mid == (lo + hi) \div 2
         IN  SortedBetween({i \in ids : i <= mid}, lo, mid) \o
             SortedBetween({i \in ids : i > mid}, mid + 1, hi)

SortedIds(ids) ==
    IF ids = {} THEN <<>>
    ELSE SortedBetween(ids,
                       CHOOSE x \in ids : \A y \in ids : x <= y,
                       CHOOSE x \in ids : \A y \in ids : y <= x)

\* var limit uint32 = 100
PageLimit == 100

\* The first n elements of a sequence (all of it when it is shorter).
FirstN(seq, n) == SubSeq(seq, 1, IF Len(seq) < n THEN Len(seq) ELSE n)

\* The answer of the index to Scroll(limit, offset): the points from the
\* offset on (from the beginning when the offset is nil) in ascending order
\* of id, at most limit of them, and the id of the point that follows them,
\* nil when none does.
ScrollPage(ids, off, limit) ==
    LET rest == SortedIds({i \in ids : off = NilOffset \/ i >= off})
    IN  [Result |-> FirstN(rest, limit),
         NextPageOffset |-> IF Len(rest) > limit THEN rest[limit + 1]
                            ELSE NilOffset]

\* A test for the last page that also stops at a full page.
LastPageOrFull(resp, limit) == Len(resp.Result) <= limit

\* if len(resp.Result) < int(limit) { break }
LastPage(resp, limit) == Len(resp.Result) < limit

\* storage.Service.ScrollPoints on a collection of less than one page: the
\* loop ends with the first answer.
ScrollPoints(idx) == ScrollPage(DOMAIN idx, NilOffset, PageLimit).Result

\* runCLI refuses an empty batch before anything else; the /process handler
\* does not look at the length of the batch.
RejectsBatch(m, batch) == m = "cli" /\ Len(batch) = 0

\* A key check that lets every request through.
KeyAlwaysAccepted(apiKey, configured) == TRUE

\* if apiKey != cfg.ServerAPIKey: the test of the /process handler.
KeyAccepted(apiKey, configured) == apiKey = configured

\* processingMu.Lock() at the start of the /process handler.
ProcessingLock ==
    /\ pc = "begin"
    /\ mode = "server"
    /\ processingMu = "free"
    /\ processingMu' = "process"
    /\ pc' = "marking"
    /\ UNCHANGED <<healthVars, cfgVars, mu, isProcessing, deferSt, planSt,
                   callVars, scrollVars, index, run, mainVars, chanVars,
                   wstate, rst, cur, updatedCount, failVars, histVars,
                   hashVars>>

\* isProcessing = true; processingMu.Unlock()
ProcessingMark ==
    /\ pc = "marking"
    /\ isProcessing' = TRUE
    /\ processingMu' = "free"
    /\ pc' = "auth"
    /\ UNCHANGED <<healthVars, cfgVars, mu, deferSt, planSt, callVars,
                   scrollVars, index, run, mainVars, chanVars, wstate, rst,
                   cur, updatedCount, failVars, histVars, hashVars>>

\* The handler returns (response written or error sent): the deferred
\* function takes processingMu ...
DeferLock ==
    /\ mode = "server"
    /\ pc \in {"done", "aborted"}
    /\ deferSt = "pending"
    /\ processingMu = "free"
    /\ processingMu' = "process"
    /\ deferSt' = "locked"
    /\ UNCHANGED <<healthVars, cfgVars, mu, isProcessing, planSt, callVars,
                   scrollVars, index, run, pc, mainVars, chanVars, wstate,
                   rst, cur, updatedCount, failVars, histVars, hashVars>>

\* ... and clears the flag: isProcessing = false; processingMu.Unlock()
DeferUnmark ==
    /\ deferSt = "locked"
    /\ isProcessing' = FALSE
    /\ processingMu' = "free"
    /\ deferSt' = "ran"
    /\ UNCHANGED <<healthVars, cfgVars, mu, planSt, callVars, scrollVars,
                   index, run, pc, mainVars, chanVars, wstate, rst, cur,
                   updatedCount, failVars, histVars, hashVars>>

\* The /process handler lets a request with the configured key through.
Authorize ==
    /\ pc = "auth"
    /\ mode = "server"
    /\ KeyAccepted(requestKey, ServerAPIKey)
    /\ pc' = "start"
    /\ UNCHANGED <<healthVars, cfgVars, lockVars, callVars, scrollVars, index,
                   run, mainVars, chanVars, wstate, rst, cur, updatedCount,
                   failVars, histVars, hashVars>>

\* http.Error(w, "Invalid API key", http.StatusUnauthorized); return
Unauthorized ==
    /\ pc = "auth"
    /\ mode = "server"
    /\ ~KeyAccepted(requestKey, ServerAPIKey)
    /\ outcome' = "unauthorized"
    /\ pc' = "aborted"
    /\ UNCHANGED <<healthVars, cfgVars, lockVars, embedCalls, scrollCalls,
                   jobTrack, lookupFailed, skippedAt, scrollVars, index, run,
                   mainVars, chanVars, wstate, rst, cur, updatedCount,
                   failVars, histVars, hashVars>>

\* embeddings.Service.ValidateAPIKey, called by runCLI before anything is
\* read from the index: one embedding call with the text "test".
ValidateAPIKey ==
    /\ pc = "begin"
    /\ mode = "cli"
    /\ ~RejectsBatch(mode, items)
    /\ embedCalls' = embedCalls + 1
    /\ pc' = "start"
    /\ UNCHANGED <<healthVars, cfgVars, lockVars, outcome, scrollCalls,
                   jobTrack, lookupFailed, skippedAt, scrollVars, index, run,
                   mainVars, chanVars, wstate, rst, cur, updatedCount,
                   failVars, histVars, hashVars>>

\* The test call fails: log.Fatalf("Failed to validate OpenAI API key").
ValidateAPIKeyFails ==
    /\ pc = "begin"
    /\ mode = "cli"
    /\ ~RejectsBatch(mode, items)
    /\ MayFail
    /\ embedCalls' = embedCalls + 1
    /\ faults' = faults + 1
    /\ outcome' = "provider key invalid"
    /\ pc' = "aborted"
    /\ UNCHANGED <<healthVars, cfgVars, lockVars, scrollCalls, jobTrack,
                   lookupFailed, skippedAt, scrollVars, index, run, mainVars,
                   chanVars, wstate, rst, cur, updatedCount, lookupFails,
                   embedFails, upsertFails, deleteFails, scrollFails,
                   priorFails, histVars, hashVars>>

\* Reading the snapshot.  A failed scroll is fatal to the run.
Scroll ==
    /\ pc = "start"
    /\ ~RejectsBatch(mode, items)
    /\ existingPoints' = ScrollPoints(index)
    /\ pc' = "plan"
    /\ scrollCalls' = scrollCalls + 1
    /\ UNCHANGED <<healthVars, cfgVars, lockVars, outcome, embedCalls,
                   jobTrack, lookupFailed, skippedAt, scrollVars, index, run,
                   currentItems, planIdx, jobCount, recvCount, scanLeft,
                   skippedCount, removedCount, summary, chanVars, wstate, rst,
                   cur, updatedCount, failVars, histVars, hashVars>>

\* A failed scroll that is logged and taken for an empty snapshot.
ScrollFailsIgnored ==
    /\ pc = "start"
    /\ ~RejectsBatch(mode, items)
    /\ MayFail
    /\ scrollCalls' = scrollCalls + 1
    /\ scrollFails' = scrollFails + 1
    /\ faults' = faults + 1
    /\ existingPoints' = <<>>
    /\ pc' = "plan"
    /\ UNCHANGED <<healthVars, cfgVars, lockVars, outcome, embedCalls,
                   jobTrack, lookupFailed, skippedAt, scrollVars, index, run,
                   currentItems, planIdx, jobCount, recvCount, scanLeft,
                   skippedCount, removedCount, summary, chanVars, wstate, rst,
                   cur, updatedCount, lookupFails, embedFails, upsertFails,
                   deleteFails, priorFails, histVars, hashVars>>

ScrollFails ==
    /\ pc = "start"
    /\ ~RejectsBatch(mode, items)
    /\ MayFail
    /\ scrollFails' = scrollFails + 1
    /\ faults' = faults + 1
    /\ pc' = "aborted"
    /\ scrollCalls' = scrollCalls + 1
    /\ outcome' = "snapshot failed"
    /\ UNCHANGED <<healthVars, cfgVars, lockVars, embedCalls, jobTrack,
                   lookupFailed, skippedAt, scrollVars, index, run, mainVars,
                   chanVars, wstate, rst, cur, updatedCount, lookupFails,
                   embedFails, upsertFails, deleteFails, priorFails, histVars,
                   hashVars>>

RejectBatch ==
    /\ pc = "begin"
    /\ RejectsBatch(mode, items)
    /\ pc' = "aborted"
    /\ outcome' = "no items"
    /\ UNCHANGED <<healthVars, cfgVars, lockVars, embedCalls, scrollCalls,
                   jobTrack, lookupFailed, skippedAt, scrollVars, index, run,
                   mainVars, chanVars, wstate, rst, cur, updatedCount,
                   failVars, histVars, hashVars>>

\* storage.Service.GetPoint when the item number parses and the call
\* succeeds: the stored point (a one-element result) or nil (none).
GetPoint(idx, itemNum) ==
    IF ParseUint(itemNum) \in DOMAIN idx THEN <<idx[ParseUint(itemNum)]>>
    ELSE <<>>

\* A planner test that takes any existing point for unchanged.
UnchangedIfPresent(point, descHash) == point # <<>>

\* The planner's test: the point exists and its _hash is a string equal to
\* the new fingerprint.
Unchanged(point, descHash) ==
    /\ point # <<>>
    /\ point[1].hash # NoHash
    /\ point[1].hash = descHash

\* A queue sized to the number of workers.
WorkerCapacity(batch) == numWorkers

\* make(chan models.EmbeddingJob, len(items)) and
\* make(chan models.EmbeddingResult, len(items)): the capacity of both
\* queues is the number of records of the batch.
QueueCapacity(batch) == Len(batch)

EmbeddingJob(item) ==
    [ItemNum |-> item.ItemNum, Item |-> item, NewHash |-> GenerateHash(item)]

Planning == pc = "plan" /\ planIdx <= Len(items)

\* One iteration of the planning loop whose lookup returns an error: the
\* item number does not parse, or the call to the index fails.
PlanLookupFails ==
    /\ Planning
    /\ planSt = "lookup"
    /\ ParseUint(items[planIdx].ItemNum) = ParseError \/ MayFail
    /\ currentItems' = currentItems \cup {items[planIdx].ItemNum}
    /\ lookupFails' = lookupFails + 1
    /\ faults' = IF ParseUint(items[planIdx].ItemNum) = ParseError
                 THEN faults ELSE faults + 1
    /\ planIdx' = planIdx + 1
    /\ lookupFailed' = lookupFailed \cup {planIdx}
    /\ UNCHANGED <<healthVars, cfgVars, lockVars, skippedAt, outcome,
                   embedCalls, scrollCalls, jobTrack, scrollVars, index, run,
                   pc, existingPoints, jobCount, recvCount, scanLeft,
                   skippedCount, removedCount, summary, chanVars, wstate, rst,
                   cur, updatedCount, embedFails, upsertFails, deleteFails,
                   scrollFails, priorFails, histVars, hashVars>>

\* The lookup finds the stored fingerprint unchanged: mu.Lock().
PlanSkipLock ==
    /\ Planning
    /\ planSt = "lookup"
    /\ ParseUint(items[planIdx].ItemNum) # ParseError
    /\ Unchanged(GetPoint(index, items[planIdx].ItemNum),
                 GenerateHash(items[planIdx]))
    /\ mu = "free"
    /\ mu' = "planner"
    /\ planSt' = "locked"
    /\ UNCHANGED <<healthVars, cfgVars, processingMu, isProcessing, deferSt,
                   callVars, scrollVars, index, run, pc, mainVars, chanVars,
                   wstate, rst, cur, updatedCount, failVars, histVars,
                   hashVars>>

\* skippedCount++; mu.Unlock(); continue
PlanSkip ==
    /\ Planning
    /\ planSt = "locked"
    /\ ParseUint(items[planIdx].ItemNum) # ParseError
    /\ Unchanged(GetPoint(index, items[planIdx].ItemNum),
                 GenerateHash(items[planIdx]))
    /\ currentItems' = currentItems \cup {items[planIdx].ItemNum}
    /\ skippedCount' = skippedCount + 1
    /\ planIdx' = planIdx + 1
    /\ skippedAt' = skippedAt \cup {planIdx}
    /\ mu' = "free"
    /\ planSt' = "lookup"
    /\ UNCHANGED <<healthVars, cfgVars, processingMu, isProcessing, deferSt,
                   outcome, embedCalls, scrollCalls, jobTrack, lookupFailed,
                   scrollVars, index, run, pc, existingPoints, jobCount,
                   recvCount, scanLeft, removedCount, summary, chanVars,
                   wstate, rst, cur, updatedCount, failVars, histVars,
                   hashVars>>

\* One iteration that queues a job: the item is new or has changed.
PlanEmit ==
    /\ Planning
    /\ planSt = "lookup"
    /\ ParseUint(items[planIdx].ItemNum) # ParseError
    /\ ~Unchanged(GetPoint(index, items[planIdx].ItemNum),
                  GenerateHash(items[planIdx]))
    /\ Len(jobs) < QueueCapacity(items)
    /\ currentItems' = currentItems \cup {items[planIdx].ItemNum}
    /\ jobs' = Append(jobs, EmbeddingJob(items[planIdx]))
    /\ jobCount' = jobCount + 1
    /\ planIdx' = planIdx + 1
    /\ jobTrack' = Queued(jobTrack, EmbeddingJob(items[planIdx]))
    /\ UNCHANGED <<healthVars, cfgVars, lockVars, outcome, embedCalls,
                   scrollCalls, lookupFailed, skippedAt, scrollVars, index,
                   run, pc, existingPoints, recvCount, scanLeft, skippedCount,
                   removedCount, summary, jobsClosed, results, resultsClosed,
                   wstate, rst, cur, updatedCount, failVars, histVars,
                   hashVars>>

\* close(jobs); runCLI then enters its result loop, the /process handler
\* starts the result goroutine and goes on to wg.Wait().
CloseJobs ==
    /\ pc = "plan"
    /\ planIdx > Len(items)
    /\ jobsClosed' = TRUE
    /\ rst' = "recv"
    /\ pc' = IF mode = "cli" THEN "results" ELSE "wait"
    /\ UNCHANGED <<healthVars, cfgVars, lockVars, callVars, scrollVars, index,
                   run, mainVars, jobs, results, resultsClosed, wstate, cur,
                   updatedCount, failVars, histVars, hashVars>>


(***************************************************************************)
(* Worker pool.                                                            *)
(***************************************************************************)
EmbeddingResult(job, vector, err) ==
    [ItemNum |-> job.ItemNum, Vector |-> vector, Item |-> job.Item,
     NewHash |-> job.NewHash, Error |-> err]

\* for job := range jobs: a worker takes the job at the head of the queue.
WorkerTake(w) ==
    /\ wstate[w].st = "idle"
    /\ jobs # <<>>
    /\ wstate' = [wstate EXCEPT ![w] = [st |-> "busy", job |-> Head(jobs)]]
    /\ jobs' = Tail(jobs)
    /\ jobTrack' = Taken(jobTrack, Head(jobs))
    /\ UNCHANGED <<healthVars, cfgVars, lockVars, outcome, embedCalls,
                   scrollCalls, lookupFailed, skippedAt, scrollVars, index,
                   run, pc, mainVars, jobsClosed, results, resultsClosed, rst,
                   cur, updatedCount, failVars, histVars, hashVars>>

\* A send on the results channel: it needs room in the buffer, whose
\* capacity is the length of the batch.
CanSend == Len(results) < QueueCapacity(items) /\ ~resultsClosed

\* The embedding call returns a vector and the worker sends the result.
WorkerEmbed(w) ==
    /\ wstate[w].st = "busy"
    /\ CanSend
    /\ results' = Append(results,
           EmbeddingResult(wstate[w].job,
                           GetEmbedding(EmbeddingText(wstate[w].job)), FALSE))
    /\ produced' = produced + 1
    /\ wstate' = [wstate EXCEPT ![w] = [st |-> "idle", job |-> NoJob]]
    /\ embedCalls' = embedCalls + 1
    /\ jobTrack' = Answered(jobTrack, wstate[w].job)
    /\ UNCHANGED <<healthVars, cfgVars, lockVars, outcome, scrollCalls,
                   lookupFailed, skippedAt, scrollVars, index, run, pc,
                   mainVars, jobs, jobsClosed, resultsClosed, rst, cur,
                   updatedCount, failVars, reconciled, upsertLog, deleteLog,
                   hashVars>>

\* The embedding call returns an error and the worker sends it on.
WorkerEmbedFails(w) ==
    /\ wstate[w].st = "busy"
    /\ CanSend
    /\ MayFail
    /\ results' = Append(results, EmbeddingResult(wstate[w].job, <<>>, TRUE))
    /\ produced' = produced + 1
    /\ embedFails' = embedFails + 1
    /\ faults' = faults + 1
    /\ wstate' = [wstate EXCEPT ![w] = [st |-> "idle", job |-> NoJob]]
    /\ embedCalls' = embedCalls + 1
    /\ jobTrack' = Answered(jobTrack, wstate[w].job)
    /\ UNCHANGED <<healthVars, cfgVars, lockVars, outcome, scrollCalls,
                   lookupFailed, skippedAt, scrollVars, index, run, pc,
                   mainVars, jobs, jobsClosed, resultsClosed, rst, cur,
                   updatedCount, lookupFails, upsertFails, deleteFails,
                   scrollFails, priorFails, reconciled, upsertLog, deleteLog,
                   hashVars>>

\* The range over a closed and drained jobs channel ends: wg.Done().
WorkerExit(w) ==
    /\ wstate[w].st = "idle"
    /\ jobs = <<>>
    /\ jobsClosed
    /\ wstate' = [wstate EXCEPT ![w] = [st |-> "exited", job |-> NoJob]]
    /\ UNCHANGED <<healthVars, cfgVars, lockVars, callVars, scrollVars, index,
                   run, pc, mainVars, chanVars, rst, cur, updatedCount,
                   failVars, histVars, hashVars>>

AllWorkersExited == \A w \in Workers : wstate[w].st = "exited"

(***************************************************************************)
(* Reconciler: the result loop of runCLI, the result goroutine of the      *)
(* /process handler.                                                       *)
(***************************************************************************)
\* runCLI receives exactly jobCount results; the goroutine of the server
\* ranges over the channel until it is closed and drained.
MayReceive(m) == m = "server" \/ (pc = "results" /\ recvCount < jobCount)

\* A result is received.  One that carries an error is logged and dropped.
RecvResult ==
    /\ rst = "recv"
    /\ MayReceive(mode)
    /\ results # <<>>
    /\ results' = Tail(results)
    /\ recvCount' = IF mode = "cli" THEN recvCount + 1 ELSE recvCount
    /\ IF Head(results).Error
       THEN /\ reconciled' = reconciled + 1
            /\ UNCHANGED <<rst, cur>>
       ELSE /\ rst' = "upsert"
            /\ cur' = Head(results)
            /\ UNCHANGED reconciled
    /\ UNCHANGED <<healthVars, cfgVars, lockVars, callVars, scrollVars, index,
                   run, pc, existingPoints, currentItems, planIdx, jobCount,
                   scanLeft, skippedCount, removedCount, summary, jobs,
                   jobsClosed, resultsClosed, wstate, updatedCount, failVars,
                   produced, upsertLog, deleteLog, hashVars>>

\* The payload of lines 567-622: the fingerprint, the time of the check and
\* the fields of the item.
UpsertedPoint(result, now) ==
    Point(result.Vector, result.NewHash, now, result.Item)

\* An upsert that keeps the record of the entry it finds.
UpsertPointMerged(idx, itemNum, point) ==
    [id \in DOMAIN idx \cup {ParseUint(itemNum)} |->
        IF id = ParseUint(itemNum)
        THEN IF id \in DOMAIN idx
             THEN [point EXCEPT !.item = idx[id].item]
             ELSE point
        ELSE idx[id]]

\* storage.Service.UpsertPoint: the point keyed by the parsed item number is
\* replaced as a whole.
UpsertPoint(idx, itemNum, point) ==
    [id \in DOMAIN idx \cup {ParseUint(itemNum)} |->
        IF id = ParseUint(itemNum) THEN point ELSE idx[id]]

Upsert ==
    /\ rst = "upsert"
    /\ index' = UpsertPoint(index, cur.ItemNum, UpsertedPoint(cur, run))
    /\ upsertLog' = Append(upsertLog, ParseUint(cur.ItemNum))
    /\ reconciled' = reconciled + 1
    /\ rst' = "count"
    /\ UNCHANGED <<healthVars, cfgVars, lockVars, callVars, scrollVars, run,
                   pc, mainVars, chanVars, wstate, cur, updatedCount,
                   failVars, produced, deleteLog, hashVars>>

\* A failed upsert that falls through to the count (the continue left out).
UpsertFailsCounted ==
    /\ rst = "upsert"
    /\ MayFail
    /\ upsertFails' = upsertFails + 1
    /\ faults' = faults + 1
    /\ reconciled' = reconciled + 1
    /\ rst' = "count"
    /\ UNCHANGED <<healthVars, cfgVars, lockVars, callVars, scrollVars, index,
                   run, pc, mainVars, chanVars, wstate, cur, updatedCount,
                   lookupFails, embedFails, deleteFails, scrollFails,
                   priorFails, produced, upsertLog, deleteLog, hashVars>>

\* The upsert returns an error: logged, the result is dropped.
UpsertFails ==
    /\ rst = "upsert"
    /\ MayFail
    /\ upsertFails' = upsertFails + 1
    /\ faults' = faults + 1
    /\ reconciled' = reconciled + 1
    /\ rst' = "recv"
    /\ cur' = NoResult
    /\ UNCHANGED <<healthVars, cfgVars, lockVars, callVars, scrollVars, index,
                   run, pc, mainVars, chanVars, wstate, updatedCount,
                   lookupFails, embedFails, deleteFails, scrollFails,
                   priorFails, produced, upsertLog, deleteLog, hashVars>>

\* mu.Lock() after a successful upsert.
LockUpdated ==
    /\ rst = "count"
    /\ mu = "free"
    /\ mu' = "reconciler"
    /\ rst' = "locked"
    /\ UNCHANGED <<healthVars, cfgVars, processingMu, isProcessing, deferSt,
                   planSt, callVars, scrollVars, index, run, pc, mainVars,
                   chanVars, wstate, cur, updatedCount, failVars, histVars,
                   hashVars>>

\* An increment that returns without mu.Unlock().
CountUpdatedKeepsLock ==
    /\ rst = "locked"
    /\ updatedCount' = updatedCount + 1
    /\ rst' = "recv"
    /\ cur' = NoResult
    /\ UNCHANGED <<healthVars, cfgVars, lockVars, callVars, scrollVars, index,
                   run, pc, mainVars, chanVars, wstate, failVars, histVars,
                   hashVars>>

\* updatedCount++; mu.Unlock()
CountUpdated ==
    /\ rst = "locked"
    /\ updatedCount' = updatedCount + 1
    /\ rst' = "recv"
    /\ cur' = NoResult
    /\ mu' = "free"
    /\ UNCHANGED <<healthVars, cfgVars, processingMu, isProcessing, deferSt,
                   planSt, callVars, scrollVars, index, run, pc, mainVars,
                   chanVars, wstate, failVars, histVars, hashVars>>

\* The range of the server's goroutine over the closed, drained channel ends.
ReconcilerExit ==
    /\ mode = "server"
    /\ rst = "recv"
    /\ results = <<>>
    /\ resultsClosed
    /\ rst' = "exited"
    /\ UNCHANGED <<healthVars, cfgVars, lockVars, callVars, scrollVars, index,
                   run, pc, mainVars, chanVars, wstate, cur, updatedCount,
                   failVars, histVars, hashVars>>


(***************************************************************************)
(* Coordinator: join of the pool, removal of stale points, summary.        *)
(***************************************************************************)
\* runCLI reaches wg.Wait() once its result loop has received jobCount
\* results; the /process handler reaches it right after starting the result
\* goroutine.
AtWait(m) ==
    IF m = "cli" THEN pc = "results" /\ rst = "recv" /\ recvCount = jobCount
    ELSE pc = "wait"

\* A join that does not wait for the workers before the results are closed.
WaitWorkersEarly ==
    /\ AtWait(mode)
    /\ resultsClosed' = TRUE
    /\ rst' = IF mode = "cli" THEN "exited" ELSE rst
    /\ scanLeft' = 1..Len(existingPoints)
    /\ pc' = "remove"
    /\ UNCHANGED <<healthVars, cfgVars, lockVars, callVars, scrollVars, index,
                   run, existingPoints, currentItems, planIdx, jobCount,
                   recvCount, skippedCount, removedCount, summary, jobs,
                   jobsClosed, results, wstate, cur, updatedCount, failVars,
                   histVars, hashVars>>

\* wg.Wait() returns and close(results) follows.
WaitWorkers ==
    /\ AtWait(mode)
    /\ AllWorkersExited
    /\ resultsClosed' = TRUE
    /\ rst' = IF mode = "cli" THEN "exited" ELSE rst
    /\ scanLeft' = 1..Len(existingPoints)
    /\ pc' = "remove"
    /\ UNCHANGED <<healthVars, cfgVars, lockVars, callVars, scrollVars, index,
                   run, existingPoints, currentItems, planIdx, jobCount,
                   recvCount, skippedCount, removedCount, summary, jobs,
                   jobsClosed, results, wstate, cur, updatedCount, failVars,
                   histVars, hashVars>>

\* The removal loop of runCLI ranges over the map existingItems (any order),
\* that of the /process handler over the slice existingPoints (in order).
NextToScan(m, left) ==
    IF m = "cli" THEN left ELSE {k \in left : \A j \in left : k <= j}

\* !currentItems[itemNum]: the formatted point id is not an item number of
\* the batch.
IsStale(itemNum, current) == itemNum \notin current

\* storage.Service.DeletePoint: the point keyed by the parsed number goes.
DeletePoint(idx, itemNum) ==
    [id \in DOMAIN idx \ {ParseUint(itemNum)} |-> idx[id]]

RemoveKeep(k) ==
    /\ pc = "remove"
    /\ k \in NextToScan(mode, scanLeft)
    /\ ~IsStale(FormatUint(existingPoints[k]), currentItems)
    /\ scanLeft' = scanLeft \ {k}
    /\ UNCHANGED <<healthVars, cfgVars, lockVars, callVars, scrollVars, index,
                   run, pc, existingPoints, currentItems, planIdx, jobCount,
                   recvCount, skippedCount, removedCount, summary, chanVars,
                   wstate, rst, cur, updatedCount, failVars, histVars,
                   hashVars>>

RemoveStale(k) ==
    /\ pc = "remove"
    /\ k \in NextToScan(mode, scanLeft)
    /\ IsStale(FormatUint(existingPoints[k]), currentItems)
    /\ index' = DeletePoint(index, FormatUint(existingPoints[k]))
    /\ deleteLog' = Append(deleteLog, ParseUint(FormatUint(existingPoints[k])))
    /\ removedCount' = removedCount + 1
    /\ scanLeft' = scanLeft \ {k}
    /\ UNCHANGED <<healthVars, cfgVars, lockVars, callVars, scrollVars, run,
                   pc, existingPoints, currentItems, planIdx, jobCount,
                   recvCount, skippedCount, summary, chanVars, wstate, rst,
                   cur, updatedCount, failVars, produced, reconciled,
                   upsertLog, hashVars>>

\* The delete returns an error: logged, not counted.
RemoveFails(k) ==
    /\ pc = "remove"
    /\ k \in NextToScan(mode, scanLeft)
    /\ IsStale(FormatUint(existingPoints[k]), currentItems)
    /\ MayFail
    /\ deleteLog' = Append(deleteLog, ParseUint(FormatUint(existingPoints[k])))
    /\ deleteFails' = deleteFails + 1
    /\ faults' = faults + 1
    /\ scanLeft' = scanLeft \ {k}
    /\ UNCHANGED <<healthVars, cfgVars, lockVars, callVars, scrollVars, index,
                   run, pc, existingPoints, currentItems, planIdx, jobCount,
                   recvCount, skippedCount, removedCount, summary, chanVars,
                   wstate, rst, cur, updatedCount, lookupFails, embedFails,
                   upsertFails, scrollFails, priorFails, produced, reconciled,
                   upsertLog, hashVars>>

\* The summary that is logged and, in server mode, returned as the response.
RunSummary(processed, skipped, updated, removed) ==
    [processed |-> processed, skipped |-> skipped, updated |-> updated,
     removed |-> removed]

Summary ==
    /\ pc = "remove"
    /\ scanLeft = {}
    /\ summary' = RunSummary(Len(items), skippedCount, updatedCount,
                             removedCount)
    /\ pc' = "done"
    /\ outcome' = "summary"
    /\ UNCHANGED <<healthVars, cfgVars, lockVars, embedCalls, scrollCalls,
                   jobTrack, lookupFailed, skippedAt, scrollVars, index, run,
                   existingPoints, currentItems, planIdx, jobCount, recvCount,
                   scanLeft, skippedCount, removedCount, chanVars, wstate,
                   rst, cur, updatedCount, failVars, histVars, hashVars>>

\* The engine is run again with the same batch, once the previous run and
\* its result goroutine are over.
NextRun ==
    /\ pc = "done"
    /\ run < MaxRuns
    /\ rst = "exited"
    /\ mode = "server" => deferSt = "ran"
    /\ run' = run + 1
    /\ priorFails' = priorFails + Failures
    /\ pc' = "begin"
    /\ existingPoints' = <<>>
    /\ currentItems' = {}
    /\ planIdx' = 1
    /\ jobCount' = 0
    /\ recvCount' = 0
    /\ scanLeft' = {}
    /\ skippedCount' = 0
    /\ updatedCount' = 0
    /\ removedCount' = 0
    /\ summary' = NoSummary
    /\ jobs' = <<>>
    /\ jobsClosed' = FALSE
    /\ results' = <<>>
    /\ resultsClosed' = FALSE
    /\ wstate' = [w \in Workers |-> [st |-> "idle", job |-> NoJob]]
    /\ rst' = "off"
    /\ cur' = NoResult
    /\ lookupFails' = 0
    /\ embedFails' = 0
    /\ upsertFails' = 0
    /\ deleteFails' = 0
    /\ scrollFails' = 0
    /\ produced' = 0
    /\ reconciled' = 0
    /\ upsertLog' = <<>>
    /\ deleteLog' = <<>>
    /\ startIndex' = index
    /\ outcome' = ""
    /\ embedCalls' = 0
    /\ scrollCalls' = 0
    /\ jobTrack' = <<>>
    /\ lookupFailed' = {}
    /\ skippedAt' = {}
    /\ mu' = "free"
    /\ deferSt' = "pending"
    /\ planSt' = "lookup"
    /\ UNCHANGED <<healthVars, mode, numWorkers, items, requestKey, index,
                   faults, hashVars, scrollVars, processingMu, isProcessing>>

Next ==
    \/ ProcessingLock
    \/ ProcessingMark
    \/ DeferLock
    \/ DeferUnmark
    \/ Authorize
    \/ Unauthorized
    \/ ValidateAPIKey
    \/ ValidateAPIKeyFails
    \/ Scroll
    \/ ScrollFails
    \/ RejectBatch
    \/ PlanLookupFails
    \/ PlanSkipLock
    \/ PlanSkip
    \/ PlanEmit
    \/ CloseJobs
    \/ \E w \in Workers : WorkerTake(w)
    \/ \E w \in Workers : WorkerEmbed(w)
    \/ \E w \in Workers : WorkerEmbedFails(w)
    \/ \E w \in Workers : WorkerExit(w)
    \/ RecvResult
    \/ Upsert
    \/ UpsertFails
    \/ LockUpdated
    \/ CountUpdated
    \/ ReconcilerExit
    \/ WaitWorkers
    \/ \E k \in scanLeft : RemoveKeep(k)
    \/ \E k \in scanLeft : RemoveStale(k)
    \/ \E k \in scanLeft : RemoveFails(k)
    \/ Summary
    \/ NextRun

Spec == Init /\ [][Next]_vars


(***************************************************************************)
(* The fingerprinter on its own: two records are drawn and fingerprinted.  *)
(***************************************************************************)
HashDescriptions == {<<"a">>, <<"a", "-">>}

HashAmounts == {-1, 1}

HashTypes == {<<"A">>, <<"A", "-", "B">>}

HashCategories == {<<"C">>, <<"B", "-", "C">>}

HashRecords ==
    { MBSItem(num, desc, b100, 0, btype, cat, <<"T">>, grp) :
        num \in {<<"1">>, <<"2">>}, desc \in HashDescriptions,
        b100 \in HashAmounts, btype \in HashTypes, cat \in HashCategories,
        grp \in {<<>>, <<"G">>} }

HashInit ==
    /\ mode = "cli"
    /\ numWorkers = 0
    /\ items = <<>>
    /\ index = EmptyIndex
    /\ startIndex = index
    /\ run = 1
    /\ priorFails = 0
    /\ faults = 0
    /\ hashPair \in HashRecords \X HashRecords
    /\ hashA = <<>>
    /\ hashB = <<>>
    /\ requestKey = ""
    /\ ScrollIdle
    /\ HealthIdle
    /\ RunInit

\* GenerateHash is applied to both records.
Fingerprint ==
    /\ hashPair # <<>>
    /\ hashA = <<>>
    /\ hashA' = GenerateHash(hashPair[1])
    /\ hashB' = GenerateHash(hashPair[2])
    /\ UNCHANGED <<healthVars, cfgVars, lockVars, callVars, scrollVars, index,
                   run, pc, mainVars, chanVars, wstate, rst, cur,
                   updatedCount, failVars, histVars, hashPair>>

HashNext == Fingerprint

HashSpec == HashInit /\ [][HashNext]_vars


(***************************************************************************)
(* storage.Service.ScrollPoints on its own, followed page by page on       *)
(* collections of up to MaxCollection points.                              *)
(***************************************************************************)
Collections == {1..n : n \in 0..MaxCollection}

ScrollInit ==
    /\ mode = "cli"
    /\ numWorkers = 0
    /\ items = <<>>
    /\ index = EmptyIndex
    /\ startIndex = index
    /\ run = 1
    /\ priorFails = 0
    /\ faults = 0
    /\ hashPair = <<>>
    /\ hashA = <<>>
    /\ hashB = <<>>
    /\ requestKey = ""
    /\ collection \in Collections
    /\ offset = NilOffset
    /\ allPoints = <<>>
    /\ fetches = 0
    /\ scrollPc = "fetch"
    /\ HealthIdle
    /\ RunInit

\* One turn of the loop whose Scroll call succeeds.
ScrollFetch ==
    /\ scrollPc = "fetch"
    /\ fetches < MaxFetches
    /\ fetches' = fetches + 1
    /\ LET resp == ScrollPage(collection, offset, PageLimit)
       IN  IF Len(resp.Result) = 0
           THEN /\ scrollPc' = "returned"
                /\ UNCHANGED <<allPoints, offset>>
           ELSE /\ allPoints' = allPoints \o resp.Result
                /\ IF LastPage(resp, PageLimit)
                   THEN /\ scrollPc' = "returned"
                        /\ UNCHANGED offset
                   ELSE /\ offset' = resp.NextPageOffset
                        /\ UNCHANGED scrollPc
    /\ UNCHANGED <<healthVars, cfgVars, lockVars, callVars, collection, index,
                   run, pc, mainVars, chanVars, wstate, rst, cur,
                   updatedCount, failVars, histVars, hashVars>>

\* One turn whose Scroll call fails: return nil, err.
ScrollFetchFails ==
    /\ scrollPc = "fetch"
    /\ fetches < MaxFetches
    /\ fetches' = fetches + 1
    /\ allPoints' = <<>>
    /\ scrollPc' = "failed"
    /\ UNCHANGED <<healthVars, cfgVars, lockVars, callVars, collection,
                   offset, index, run, pc, mainVars, chanVars, wstate, rst,
                   cur, updatedCount, failVars, histVars, hashVars>>

\* existingPoints, err := storageSvc.ScrollPoints(ctx, "descriptions"): the
\* caller receives the snapshot; the planning loop comes after.
SnapshotTaken ==
    /\ scrollPc = "returned"
    /\ existingPoints' = allPoints
    /\ scrollPc' = "taken"
    /\ UNCHANGED <<healthVars, cfgVars, lockVars, callVars, collection,
                   offset, allPoints, fetches, index, run, pc, currentItems,
                   planIdx, jobCount, recvCount, scanLeft, skippedCount,
                   removedCount, summary, chanVars, wstate, rst, cur,
                   updatedCount, failVars, histVars, hashVars>>

ScrollNext ==
    \/ ScrollFetch
    \/ ScrollFetchFails
    \/ SnapshotTaken

ScrollSpec == ScrollInit /\ [][ScrollNext]_vars


(***************************************************************************)
(* The processing flag of the server.  net/http serves every request on a  *)
(* goroutine of its own, so several /process handlers and the handler of   *)
(* GET / run side by side on the one isProcessing and the one              *)
(* processingMu of runServer.  Between setting the flag and the deferred   *)
(* function the /process handler touches neither.                          *)
(***************************************************************************)
Requests == 1..MaxRequests

HealthInit ==
    /\ mode = "server"
    /\ numWorkers = 0
    /\ items = <<>>
    /\ index = EmptyIndex
    /\ startIndex = index
    /\ run = 1
    /\ priorFails = 0
    /\ faults = 0
    /\ hashPair = <<>>
    /\ hashA = <<>>
    /\ hashB = <<>>
    /\ requestKey = ServerAPIKey
    /\ ScrollIdle
    /\ handlers = [r \in Requests |-> "idle"]
    /\ healthPc = "idle"
    /\ status = FALSE
    /\ RunInit

\* POST /process arrives: processingMu.Lock()
HandlerLock(r) ==
    /\ handlers[r] = "idle"
    /\ processingMu = "free"
    /\ processingMu' = "process"
    /\ handlers' = [handlers EXCEPT ![r] = "marking"]
    /\ UNCHANGED <<cfgVars, mu, isProcessing, deferSt, planSt, callVars,
                   scrollVars, healthPc, status, index, run, pc, mainVars,
                   chanVars, wstate, rst, cur, updatedCount, failVars,
                   histVars, hashVars>>

\* isProcessing = true; processingMu.Unlock(); the body of the handler
\* follows.
HandlerMark(r) ==
    /\ handlers[r] = "marking"
    /\ isProcessing' = TRUE
    /\ processingMu' = "free"
    /\ handlers' = [handlers EXCEPT ![r] = "handling"]
    /\ UNCHANGED <<cfgVars, mu, deferSt, planSt, callVars, scrollVars,
                   healthPc, status, index, run, pc, mainVars, chanVars,
                   wstate, rst, cur, updatedCount, failVars, histVars,
                   hashVars>>

\* The handler returns; its deferred function takes processingMu ...
HandlerDeferLock(r) ==
    /\ handlers[r] = "handling"
    /\ processingMu = "free"
    /\ processingMu' = "process"
    /\ handlers' = [handlers EXCEPT ![r] = "deferred"]
    /\ UNCHANGED <<cfgVars, mu, isProcessing, deferSt, planSt, callVars,
                   scrollVars, healthPc, status, index, run, pc, mainVars,
                   chanVars, wstate, rst, cur, updatedCount, failVars,
                   histVars, hashVars>>

\* ... and clears the flag: isProcessing = false; processingMu.Unlock()
HandlerDeferUnmark(r) ==
    /\ handlers[r] = "deferred"
    /\ isProcessing' = FALSE
    /\ processingMu' = "free"
    /\ handlers' = [handlers EXCEPT ![r] = "returned"]
    /\ UNCHANGED <<cfgVars, mu, deferSt, planSt, callVars, scrollVars,
                   healthPc, status, index, run, pc, mainVars, chanVars,
                   wstate, rst, cur, updatedCount, failVars, histVars,
                   hashVars>>

\* The client sends its next POST /process.
HandlerNext(r) ==
    /\ handlers[r] = "returned"
    /\ handlers' = [handlers EXCEPT ![r] = "idle"]
    /\ UNCHANGED <<cfgVars, lockVars, callVars, scrollVars, healthPc, status,
                   index, run, pc, mainVars, chanVars, wstate, rst, cur,
                   updatedCount, failVars, histVars, hashVars>>

\* GET / arrives: processingMu.Lock()
HealthLock ==
    /\ healthPc = "idle"
    /\ processingMu = "free"
    /\ processingMu' = "health"
    /\ healthPc' = "locked"
    /\ UNCHANGED <<cfgVars, mu, isProcessing, deferSt, planSt, callVars,
                   scrollVars, handlers, status, index, run, pc, mainVars,
                   chanVars, wstate, rst, cur, updatedCount, failVars,
                   histVars, hashVars>>

\* status := struct{ ..., IsProcessing: isProcessing, ... };
\* processingMu.Unlock()
HealthRead ==
    /\ healthPc = "locked"
    /\ status' = isProcessing
    /\ processingMu' = "free"
    /\ healthPc' = "read"
    /\ UNCHANGED <<cfgVars, mu, isProcessing, deferSt, planSt, callVars,
                   scrollVars, handlers, index, run, pc, mainVars, chanVars,
                   wstate, rst, cur, updatedCount, failVars, histVars,
                   hashVars>>

\* json.NewEncoder(w).Encode(status); return
HealthReply ==
    /\ healthPc = "read"
    /\ healthPc' = "idle"
    /\ UNCHANGED <<cfgVars, lockVars, callVars, scrollVars, handlers, status,
                   index, run, pc, mainVars, chanVars, wstate, rst, cur,
                   updatedCount, failVars, histVars, hashVars>>

HealthNext ==
    \/ \E r \in Requests :
          \/ HandlerLock(r)
          \/ HandlerMark(r)
          \/ HandlerDeferLock(r)
          \/ HandlerDeferUnmark(r)
          \/ HandlerNext(r)
    \/ HealthLock
    \/ HealthRead
    \/ HealthReply

HealthSpec == HealthInit /\ [][HealthNext]_vars


(***************************************************************************)
(* Properties.                                                             *)
(***************************************************************************)
RunDone == pc = "done"

\* Nothing of the run is still going on: the summary is out and the result
\* processing is over.
RunOver == pc = "done" /\ rst = "exited"

NoFailure == Failures = 0 /\ priorFails = 0 /\ faults = 0

Range(seq) == {seq[i] : i \in 1..Len(seq)}

Occurrences(seq, x) == Cardinality({i \in 1..Len(seq) : seq[i] = x})

InputIds == {ParseUint(items[i].ItemNum) : i \in 1..Len(items)}

DistinctItemNums ==
    \A i, j \in 1..Len(items) :
        i # j => items[i].ItemNum # items[j].ItemNum

\* Every item number is the decimal spelling of its id, and no two items
\* share one.
WellFormedBatch ==
    /\ DistinctItemNums
    /\ \A i \in 1..Len(items) :
         /\ ParseUint(items[i].ItemNum) # ParseError
         /\ FormatUint(ParseUint(items[i].ItemNum)) = items[i].ItemNum

\* C1: the reference scenario (A new, B unchanged, C changed, D only in the
\* index), run without a failed call and with at least one worker, reports
\* processed=3, skipped=1, updated=2, removed=1, in CLI and in server mode.
C1_Scenario ==
    ( /\ items = ScenarioBatch
      /\ startIndex = ScenarioIndex
      /\ numWorkers >= 1
      /\ NoFailure
      /\ RunDone )
    => summary = RunSummary(3, 1, 2, 1)

\* C2: after a run over pairwise distinct item numbers in which no call
\* fails, the ids in the index are exactly the ids the item numbers denote
\* and every stored _hash is the fingerprint of its record.
C2_IndexMatchesInput ==
    (RunOver /\ numWorkers >= 1 /\ NoFailure /\ DistinctItemNums)
    => /\ DOMAIN index = InputIds
       /\ \A i \in 1..Len(items) :
            index[ParseUint(items[i].ItemNum)].hash = GenerateHash(items[i])

\* C3: the second of two runs over the same batch, with nothing failing in
\* either, reports updated = 0, removed = 0 and skipped = size of the batch.
C3_Idempotent ==
    (run = 2 /\ RunDone /\ numWorkers >= 1 /\ NoFailure /\ DistinctItemNums)
    => /\ summary.updated = 0
       /\ summary.removed = 0
       /\ summary.skipped = Len(items)

\* C4: an id of the snapshot that no item of the batch denotes gets exactly
\* one delete call in the run, and no point id is both upserted and deleted
\* in the same run (stated for the runs in which no call fails).
C4_DeleteOnceNeverUpserted ==
    faults = 0 =>
        /\ RunDone =>
             \A id \in Range(existingPoints) \ InputIds :
                 Occurrences(deleteLog, id) = 1
        /\ Range(upsertLog) \cap Range(deleteLog) = {}

\* C5: when the embedding call of exactly one of the N jobs fails and no
\* other call fails, the run upserts the other N-1 records, reports
\* updated = N-1 and leaves exactly one record unaccounted (failed); stated
\* for batches of distinct, canonically spelt item numbers.
C5_PartialFailure ==
    ( /\ RunDone
      /\ WellFormedBatch
      /\ embedFails = 1
      /\ lookupFails + upsertFails + deleteFails + priorFails = 0 )
    => /\ Len(upsertLog) = jobCount - 1
       /\ summary.updated = jobCount - 1
       /\ summary.processed - summary.skipped - summary.updated = 1

\* C6: once the pool is joined (wg.Wait() has returned), the workers have
\* produced as many results as jobs were queued, whatever the batch and the
\* configured number of workers (stated for the runs without a failed call).
C6_Completeness ==
    (pc \in {"remove", "done"} /\ NoFailure) => produced = jobCount

\* C7: when the summary is reported, processed = skipped + updated + failed,
\* failed being the records whose lookup, embedding or upsert failed; stated
\* for at least one worker and distinct, canonically spelt item numbers.
C7_SummaryPartition ==
    (RunDone /\ numWorkers >= 1 /\ WellFormedBatch) =>
        summary.processed =
            summary.skipped + summary.updated
                + lookupFails + embedFails + upsertFails

\* C8: every result of every queued job has been reconciled (its error
\* logged or its upsert attempted) before the first delete is issued
\* (stated for the runs with at least one worker, no failed call and
\* distinct, canonically spelt item numbers).
C8_ReconcileBeforeDelete ==
    (numWorkers >= 1 /\ NoFailure /\ WellFormedBatch /\ deleteLog # <<>>)
    => reconciled = jobCount

\* C9: the updated count returned by /process is the number of upserts of
\* the run that succeeded (stated for the runs with at least one worker,
\* no failed call and distinct, canonically spelt item numbers).
C9_UpdatedIsUpserts ==
    ( /\ mode = "server"
      /\ numWorkers >= 1
      /\ NoFailure
      /\ WellFormedBatch
      /\ RunDone )
    => summary.updated = Len(upsertLog)

FingerprintedFields(item) ==
    <<item.Description, item.Benefit100, item.ScheduleFee, item.BenefitType,
      item.Category, item.ItemType>>

\* C10: two records that differ in a fingerprinted field have different
\* fingerprints, also when field values contain '-'.
C10_Sensitive ==
    ( /\ hashA # <<>>
      /\ FingerprintedFields(hashPair[1]) # FingerprintedFields(hashPair[2]) )
    => hashA # hashB


\* C11: the fingerprint is a function of the six fingerprinted fields
\* only: two records that agree on them have the same fingerprint,
\* whatever their ItemNum, Group or other attributes.
C11_Stable ==
    ( /\ hashA # <<>>
      /\ FingerprintedFields(hashPair[1]) = FingerprintedFields(hashPair[2]) )
    => hashA = hashB

\* Two fingerprinted records that agree on the six fields and differ in
\* both identifier and group.
C11_Witness ==
    /\ hashA # <<>>
    /\ FingerprintedFields(hashPair[1]) = FingerprintedFields(hashPair[2])
    /\ hashPair[1].ItemNum # hashPair[2].ItemNum
    /\ hashPair[1].Group # hashPair[2].Group
    /\ hashA = hashB


\* C12 as stated: when the scroll of the snapshot fails, the run ends
\* without a summary and no embedding call, upsert or delete is made in
\* it, before or after the failure.
C12_NoCallAtAll ==
    scrollFails > 0 =>
        /\ pc = "aborted"
        /\ summary = NoSummary
        /\ embedCalls = 0
        /\ upsertLog = <<>>
        /\ deleteLog = <<>>

\* The embedding calls made for records of the batch.
JobEmbedCalls == produced

\* C12, amended: when the scroll of the snapshot fails, the run ends
\* without a summary, no record is looked up, no job is queued, no
\* embedding call is made for a record, nothing is upserted or deleted and
\* the index is as it was; the one call to the provider the run may have
\* made is the test call of runCLI's key validation, before the scroll.
C12_FatalSnapshotFailure ==
    scrollFails > 0 =>
        /\ pc = "aborted"
        /\ outcome = "snapshot failed"
        /\ summary = NoSummary
        /\ planIdx = 1
        /\ jobCount = 0
        /\ JobEmbedCalls = 0
        /\ embedCalls = (IF mode = "cli" THEN 1 ELSE 0)
        /\ upsertLog = <<>>
        /\ deleteLog = <<>>
        /\ index = startIndex
        /\ rst = "off"
        /\ jobs = <<>>
        /\ results = <<>>

\* A scroll has failed in a run whose batch holds records that would have
\* been embedded and whose index holds points that would have been removed.
C12_Witness ==
    /\ scrollFails = 1
    /\ pc = "aborted"
    /\ items = ScenarioBatch
    /\ startIndex = ScenarioIndex
    /\ numWorkers >= 1


\* README, "Required fields": ItemNum and Description.
Malformed(batch) ==
    \E i \in 1..Len(batch) :
        batch[i].ItemNum = <<>> \/ batch[i].Description = <<>>

\* C13: a batch with a record that lacks its item number or its
\* description is rejected before any processing: no point is looked up,
\* no embedding call is made for a record, nothing is upserted or deleted
\* (stated for the runs in which no call fails).
C13_MalformedRejected ==
    (Malformed(items) /\ faults = 0) =>
        /\ planIdx = 1
        /\ JobEmbedCalls = 0
        /\ upsertLog = <<>>
        /\ deleteLog = <<>>
        /\ summary = NoSummary


\* The request passes the key check of the /process handler (runCLI has
\* none).
Authorized == mode = "server" => KeyAccepted(requestKey, ServerAPIKey)

\* C14: an empty batch is rejected with the error "no MBS items found"
\* and leaves the index as it was, no delete being issued, in server mode
\* as in CLI mode (stated for authorized runs against an index that holds
\* points, in which no call fails).
C14_EmptyRejected ==
    (Len(items) = 0 /\ Authorized /\ faults = 0 /\ DOMAIN startIndex # {}) =>
        /\ outcome \in {"", "no items"}
        /\ deleteLog = <<>>
        /\ index = startIndex


\* C15: a /process request whose X-API-Key differs from the configured
\* key is answered 401 and causes no snapshot read, no point lookup, no
\* embedding call, no upsert and no delete; a reconciliation pass is begun
\* only by a request that carries the configured key.
C15_ApiKeyGate ==
    mode = "server" =>
        /\ requestKey # ServerAPIKey =>
             /\ pc \in {"begin", "marking", "auth", "aborted"}
             /\ pc = "aborted" => outcome = "unauthorized"
             /\ scrollCalls = 0
             /\ planIdx = 1
             /\ embedCalls = 0
             /\ upsertLog = <<>>
             /\ deleteLog = <<>>
             /\ index = startIndex
             /\ ~ENABLED (Authorize \/ Scroll \/ ScrollFails)
        /\ pc \notin {"begin", "marking", "auth", "aborted"} =>
             requestKey = ServerAPIKey

\* A request with a wrong key, for a batch and an index that would have
\* caused embeddings, upserts and deletes, has been answered 401.
C15_Witness ==
    /\ mode = "server"
    /\ requestKey = "wrong"
    /\ items = ScenarioBatch
    /\ startIndex = ScenarioIndex
    /\ numWorkers >= 1
    /\ pc = "aborted"
    /\ outcome = "unauthorized"


\* C16: a record whose point lookup fails is, in that run, not deleted, no
\* job is queued for it (so it is neither embedded nor upserted), it is
\* counted neither as skipped nor as updated, and the run goes on.
C16_LookupFailure ==
    /\ lookupFails > 0 => pc # "aborted"
    /\ skippedCount + jobCount + lookupFails = planIdx - 1
    /\ \A i \in lookupFailed :
         /\ EmbeddingJob(items[i]) \notin DOMAIN jobTrack
         /\ ParseUint(items[i].ItemNum) \notin Range(deleteLog)


\* The snapshot positions whose point the removal loop finds stale.
StalePositions ==
    {k \in 1..Len(existingPoints) :
        IsStale(FormatUint(existingPoints[k]), currentItems)}

\* C17: a failed upsert is not counted as updated and a failed delete is
\* not counted as removed, neither ends the run, and the other upserts and
\* deletes are still attempted and counted: the updated counter is the
\* number of upserts that succeeded, the removed counter the number of
\* deletes that succeeded, every result without an embedding error has
\* its upsert attempted and every stale point its delete, exactly once.
C17_FailureIsolation ==
    /\ upsertFails + deleteFails > 0 => pc # "aborted"
    /\ updatedCount =
         Len(upsertLog) - (IF rst \in {"count", "locked"} THEN 1 ELSE 0)
    /\ removedCount = Len(deleteLog) - deleteFails
    /\ RunOver =>
         /\ reconciled = produced
         /\ Len(upsertLog) + upsertFails = produced - embedFails
    /\ pc = "done" =>
         /\ Len(deleteLog) = Cardinality(StalePositions)
         /\ \A k \in StalePositions :
                Occurrences(deleteLog, existingPoints[k]) = 1
         /\ summary.removed = Len(deleteLog) - deleteFails

\* A finished run in which one upsert and one delete failed while another
\* upsert and another delete succeeded and were counted.
C17_Witness ==
    /\ RunOver
    /\ upsertFails = 1
    /\ deleteFails = 1
    /\ updatedCount >= 1
    /\ removedCount >= 1
    /\ summary.removed = removedCount


\* C18: when ScrollPoints returns without error, what it returns, and what
\* the caller then plans against, holds every point of the collection
\* exactly once (in ascending order of id), whatever the size of the
\* collection; nothing has been compared by then.
C18_CompleteSnapshot ==
    /\ scrollPc = "returned" => allPoints = SortedIds(collection)
    /\ scrollPc = "taken" =>
         /\ existingPoints = SortedIds(collection)
         /\ planIdx = 1
         /\ currentItems = {}

\* ScrollPoints has returned the snapshot of a collection of more than two
\* pages.
C18_Witness ==
    /\ scrollPc = "taken"
    /\ Cardinality(collection) > 2 * PageLimit
    /\ Len(existingPoints) = Cardinality(collection)
    /\ fetches = 3

\* C19: the pagination loop of ScrollPoints exits for every collection
\* size, a last page of exactly 100 points included: it never asks for
\* more pages than the collection has, plus the one that ends the loop.
C19_Terminates ==
    fetches <= (Cardinality(collection) \div PageLimit) + 1


\* C20: every queued job is taken from the queue by exactly one worker,
\* the provider is called exactly once for it and exactly one result is
\* sent for it, whatever the number of workers and the interleaving: never
\* more than once, and once by the time the pool has been joined.
C20_ExactlyOnce ==
    \A j \in DOMAIN jobTrack :
        /\ jobTrack[j].queued = 1
        /\ jobTrack[j].taken <= 1
        /\ jobTrack[j].embedded <= jobTrack[j].taken
        /\ jobTrack[j].answered <= jobTrack[j].embedded
        /\ pc \in {"remove", "done"} =>
             /\ jobTrack[j].taken = 1
             /\ jobTrack[j].embedded = 1
             /\ jobTrack[j].answered = 1


\* The entry the index held for a record's id when the run began, if any,
\* has a _hash string equal to the record's fingerprint.
SameHashStored(i) ==
    LET id == ParseUint(items[i].ItemNum)
    IN  /\ id \in DOMAIN startIndex
        /\ startIndex[id].hash # NoHash
        /\ startIndex[id].hash = GenerateHash(items[i])

\* C21: a record whose lookup succeeded is counted as skipped, and no job
\* is queued for it, exactly when the index holds an entry for its id whose
\* _hash string equals the record's fingerprint; in every other case (no
\* entry, another hash, no _hash string) exactly one job is queued for it.
C21_Classification ==
    /\ skippedCount = Cardinality(skippedAt)
    /\ \A i \in 1..(planIdx - 1) :
         i \notin lookupFailed =>
            /\ i \in skippedAt <=> SameHashStored(i)
            /\ i \in skippedAt =>
                 EmbeddingJob(items[i]) \notin DOMAIN jobTrack
            /\ i \notin skippedAt =>
                 /\ EmbeddingJob(items[i]) \in DOMAIN jobTrack
                 /\ jobTrack[EmbeddingJob(items[i])].queued = 1

\* The planner has classified a new record, an unchanged one and a changed
\* one.
C21_Witness ==
    /\ items = ScenarioBatch
    /\ startIndex = ScenarioIndex
    /\ planIdx = 4
    /\ lookupFailed = {}
    /\ skippedAt = {2}
    /\ jobCount = 2


\* C22: the ids for which a delete is issued in a run are exactly the ids of
\* the snapshot that no input record denotes, the id of a record being the
\* number its ItemNum parses to; no point denoted by an input record is
\* deleted, however its item number is spelt (stated for the runs in which
\* no call fails and at least one worker runs).
C22_StaleSet ==
    (faults = 0 /\ numWorkers >= 1) =>
        /\ Range(deleteLog) \cap InputIds = {}
        /\ Range(deleteLog) \subseteq Range(existingPoints)
        /\ RunDone => Range(deleteLog) = Range(existingPoints) \ InputIds


\* C23: in a run with at least one worker in which every external call
\* returns, the workers exit, the join completes and the run reaches its
\* summary.  The snapshot is read first, and its loop ends only if every
\* page request after the first starts beyond the points already read.
C23_RunTerminates ==
    (scrollPc = "fetch" /\ fetches > 0) =>
        /\ offset # NilOffset
        /\ \A i \in 1..Len(allPoints) : allPoints[i] < offset


\* C24: whatever NUM_WORKERS is set to, at least one worker runs, so that
\* every queued job is consumed and the run completes: no job is left in
\* the queue once the pool has been joined, and the run is never stuck
\* short of its end.
C24_MinimumPool ==
    /\ pc \in {"remove", "done"} => jobs = <<>>
    /\ pc \in {"done", "aborted"} \/ ENABLED Next


\* The planner has reached a record for which it will queue a job.
AboutToEmit ==
    /\ Planning
    /\ ParseUint(items[planIdx].ItemNum) # ParseError
    /\ ~SameHashStored(planIdx)

\* C25: the queued jobs and the queued results never outnumber the
\* records of the batch, the planner finds room in the job queue whenever
\* it has a job to queue, and a worker finds room in the result queue
\* whenever it has a result to send, also when no result is received
\* before all jobs are queued.
C25_NonBlocking ==
    /\ Len(jobs) <= Len(items)
    /\ Len(results) <= Len(items)
    /\ AboutToEmit => Len(jobs) < QueueCapacity(items)
    /\ \A w \in Workers :
         wstate[w].st = "busy" => Len(results) < QueueCapacity(items)

\* Every record of a batch of three has been answered and no result has
\* been received yet.
C25_Witness ==
    /\ Len(items) = 3
    /\ Len(results) = 3
    /\ recvCount = 0
    /\ rst = "recv"


\* C26: the job queue is closed only when the planner has been through the
\* whole batch, and nothing is queued after the close; the result queue is
\* closed only when every worker has exited, so that no worker is left to
\* send on a closed queue.
C26_CloseDiscipline ==
    /\ jobsClosed =>
         /\ planIdx > Len(items)
         /\ pc \notin {"begin", "marking", "auth", "start", "plan"}
         /\ ~ENABLED PlanEmit
         /\ \A j \in DOMAIN jobTrack :
                jobTrack[j].queued >= jobTrack[j].taken
         /\ Len(jobs) + produced + Cardinality({w \in Workers :
                wstate[w].st = "busy"}) = jobCount
    /\ resultsClosed =>
         /\ jobsClosed
         /\ \A w \in Workers : wstate[w].st = "exited"

\* Both queues are closed after two workers have answered two jobs.
C26_Witness ==
    /\ jobsClosed
    /\ resultsClosed
    /\ numWorkers = 2
    /\ jobCount >= 2
    /\ produced = jobCount


\* The goroutine of runCLI or of the /process handler is inside a call to
\* the provider or the index: the key validation, the scroll, a point
\* lookup, a delete and, in runCLI, an upsert.
MainInCall ==
    \/ pc = "start"
    \/ Planning /\ planSt = "lookup"
    \/ pc = "remove" /\ scanLeft # {}
    \/ mode = "cli" /\ (pc = "begin" \/ rst = "upsert")

\* C27: no goroutine holds the counter mutex mu or the server's
\* processingMu while it is inside a call to the embedding provider or to
\* the index; the workers never hold either.
C27_NoLockAcrossCalls ==
    /\ mu \in {"free", "planner", "reconciler"}
    /\ processingMu \in {"free", "process"}
    /\ MainInCall =>
         /\ mu # "planner"
         /\ mode = "cli" => mu = "free"
         /\ processingMu = "free"
    /\ rst = "upsert" => mu # "reconciler"

\* The result goroutine of the server holds mu while the handler is in its
\* removal loop and the deferred function has yet to run.
C27_Witness ==
    /\ mode = "server"
    /\ mu = "reconciler"
    /\ rst = "locked"
    /\ pc = "remove"
    /\ scanLeft # {}
    /\ isProcessing


\* The job a result says it was produced from.
JobOf(result) ==
    [ItemNum |-> result.ItemNum, Item |-> result.Item,
     NewHash |-> result.NewHash]

\* The result carries the item number, the record and the fingerprint of
\* one queued job that a worker has answered, and, without an error, the
\* provider's vector for that job's text.
CarriesItsJob(result) ==
    /\ JobOf(result) \in DOMAIN jobTrack
    /\ jobTrack[JobOf(result)].answered >= 1
    /\ result.ItemNum = result.Item.ItemNum
    /\ result.NewHash = GenerateHash(result.Item)
    /\ \E i \in 1..Len(items) : items[i] = result.Item
    /\ ~result.Error =>
           result.Vector = GetEmbedding(EmbeddingText(JobOf(result)))

\* Results with an error that wait in the results queue.
ErrorsQueued == Cardinality({i \in 1..Len(results) : results[i].Error})

ResultsIntact ==
    /\ \A i \in 1..Len(results) : CarriesItsJob(results[i])
    /\ rst \in {"upsert", "count", "locked"} =>
           CarriesItsJob(cur) /\ ~cur.Error
    /\ Len(upsertLog) + upsertFails + (IF rst = "upsert" THEN 1 ELSE 0)
           = produced - embedFails - (Len(results) - ErrorsQueued)

\* The step in which the upsert of the current result succeeds.
UpsertStep == rst = "upsert" /\ rst' = "count"

OneUpsertPerResult ==
    /\ (rst = "recv" /\ rst' = "upsert") =>
           cur' = Head(results) /\ ~cur'.Error
    /\ UpsertStep =>
           LET id == ParseUint(cur.ItemNum) IN
           /\ id # ParseError
           /\ upsertLog' = Append(upsertLog, id)
           /\ DOMAIN index' = DOMAIN index \cup {id}
           /\ index'[id] = [vector |-> cur.Vector,
                            hash |-> GenerateHash(cur.Item),
                            lastCheck |-> run, item |-> cur.Item]
           /\ \A other \in DOMAIN index \ {id} : index'[other] = index[other]
    /\ upsertLog' # upsertLog => UpsertStep \/ upsertLog' = <<>>

\* C28: every result carries the item number, the record and the
\* fingerprint of the job it was produced from, and for a result without an
\* error exactly one upsert is issued, keyed by that item number, whose
\* stored hash is the record's newly computed fingerprint and whose vector
\* and payload replace the previous entry as a whole.
C28_ResultIntegrity == []ResultsIntact /\ [][OneUpsertPerResult]_vars

C28_Witness ==
    /\ rst = "count"
    /\ numWorkers = 2
    /\ ParseUint(cur.ItemNum) \in DOMAIN startIndex
    /\ startIndex[ParseUint(cur.ItemNum)].item # cur.Item
    /\ index[ParseUint(cur.ItemNum)].item = cur.Item
    /\ Len(upsertLog) = 2


\* The counts a run must report for its batch and the snapshot it starts
\* from when no call fails: they depend on nothing else.
ExpectedSkipped == Cardinality({i \in 1..Len(items) : SameHashStored(i)})

ExpectedRemoved ==
    Cardinality({id \in DOMAIN startIndex :
                    \A i \in 1..Len(items) : items[i].ItemNum # FormatUint(id)})

ExpectedSummary ==
    RunSummary(Len(items), ExpectedSkipped, Len(items) - ExpectedSkipped,
               ExpectedRemoved)

\* C29: for a given batch, a given snapshot and given outcomes of the
\* external calls (here: none fails), the counts processed, skipped, updated
\* and removed of the summary are the same whatever the order in which the
\* workers complete and whenever the reconciler is scheduled (stated for the
\* first run of a pool with at least one worker).
C29_OrderIndependent ==
    (RunDone /\ run = 1 /\ numWorkers >= 1 /\ NoFailure) =>
        summary = ExpectedSummary


\* C30: for a record classified unchanged, the run issues no embedding
\* call, no upsert and no delete for its identifier, and the entry the
\* index holds for it stays the one it held when the run began (stated for
\* batches of pairwise distinct item numbers and runs without a failed
\* call of a pool with at least one worker).
C30_SkippedFrame ==
    (DistinctItemNums /\ faults = 0 /\ numWorkers >= 1) =>
        \A i \in skippedAt :
            LET id == ParseUint(items[i].ItemNum) IN
            /\ \A j \in DOMAIN jobTrack : j.ItemNum # items[i].ItemNum
            /\ id \notin Range(upsertLog)
            /\ id \notin Range(deleteLog)
            /\ id \in DOMAIN index
            /\ index[id] = startIndex[id]


\* The /process requests whose handler has set the flag and whose deferred
\* function has not yet cleared it.
BeingHandled == {r \in DOMAIN handlers : handlers[r] = "handling"}

\* C31: the is_processing value GET / reports is true whenever at least one
\* /process request is being handled and false only when none is, also
\* when two /process requests overlap and one finishes before the other.
\* The handler of GET / reads the flag while it holds processingMu, and no
\* /process handler starts or ends being handled meanwhile: the value it is
\* about to report must tell whether a request is being handled.
C31_HealthFlag ==
    healthPc = "locked" => (isProcessing <=> BeingHandled # {})

=============================================================================
